---- MODULE Spec2Model ----
(***************************************************************************)
(* SPQRUtil (spqr.py): the curvature accumulator add_batch and the         *)
(* blockwise quantize call of one linear layer.                            *)
(*                                                                         *)
(* Tensors are functions over 0-based index ranges, as in the source.      *)
(* Real numbers are exact rationals <<numerator, denominator>> in lowest   *)
(* terms with a positive denominator, so "exact arithmetic" statements are *)
(* decided exactly.  A Python None is the empty tuple.                     *)
(***************************************************************************)
EXTENDS Integers, Sequences, FiniteSets, TLC

VARIABLES
    layer_weight,   \* self.layer.weight, [out_dim][in_dim] integers, never written
    H,              \* self.H: a [columns][columns] matrix of rationals, or None
    nsamples,       \* self.nsamples
    dead,           \* self.dead (line 97), None before the first quantize call
    q,              \* the frame of the running (or, at pc "idle", the last) quantize call
    outcome,        \* the last call: its operation and how it ended
    result,         \* what the last call returned if it was quantize, else None
    seen,           \* history: every feature vector handed to add_batch, in order
    leading,        \* history: the sum of the leading-axis lengths of the batches
    taken,          \* history: nsamples at the moment a call set self.H = None, else None
    ran             \* history: a quantize call has got past line 94

vars == <<layer_weight, H, nsamples, dead, q, outcome, result, seen, leading, taken, ran>>

None == <<>>

(***************************************************************************)
(* Bounds of the model.                                                    *)
(***************************************************************************)
MaxSamples == 3     \* add_batch is not offered beyond this many counted samples
MaxInDim == 4       \* widest layer of the column-loop specification

(***************************************************************************)
(* Exact rational arithmetic.                                              *)
(***************************************************************************)
Abs(n) == IF n < 0 THEN -n ELSE n

Min(a, b) == IF a < b THEN a ELSE b

RECURSIVE GCD(_, _)
GCD(a, b) == IF b = 0 THEN a ELSE GCD(b, a % b)

Frac(n, d) ==
    LET s == IF d < 0 THEN -1 ELSE 1
        g == GCD(Abs(n), Abs(d))
    IN  <<(s * n) \div g, (s * d) \div g>>

FI(n) == <<n, 1>>

FAdd(a, b) == Frac(a[1] * b[2] + b[1] * a[2], a[2] * b[2])

FSub(a, b) == Frac(a[1] * b[2] - b[1] * a[2], a[2] * b[2])

FMul(a, b) == Frac(a[1] * b[1], a[2] * b[2])

FDiv(a, b) == Frac(a[1] * b[2], a[2] * b[1])

FLt(a, b) == a[1] * b[2] < b[1] * a[2]

FMin(a, b) == IF FLt(b, a) THEN b ELSE a

FMax(a, b) == IF FLt(a, b) THEN b ELSE a

FSquare(a) == FMul(a, a)

FFloor(a) == a[1] \div a[2]

\* torch.round: to the nearest integer, ties to the even one
FRound(a) ==
    LET fl == (2 * a[1] + a[2]) \div (2 * a[2])
        tie == (2 * a[1] + a[2]) % (2 * a[2]) = 0
    IN  IF tie /\ fl % 2 = 1 THEN fl - 1 ELSE fl

RECURSIVE FSum(_, _)
FSum(f, S) ==
    IF S = {} THEN FI(0)
    ELSE LET x == CHOOSE y \in S : TRUE IN FAdd(f[x], FSum(f, S \ {x}))

RECURSIVE ISum(_, _)
ISum(f, S) ==
    IF S = {} THEN 0
    ELSE LET x == CHOOSE y \in S : TRUE IN f[x] + ISum(f, S \ {x})

Range(n) == 0 .. (n - 1)

(***************************************************************************)
(* add_batch (lines 22-35).                                                *)
(*                                                                         *)
(* A batch is [shape, data]: data is a sequence of feature vectors for a   *)
(* 2-D batch, a sequence of such sequences for a 3-D batch.                *)
(***************************************************************************)
Batch2D(rows) == [shape |-> <<Len(rows), Len(rows[1])>>, data |-> rows]

Batch3D(items) ==
    [shape |-> <<Len(items), Len(items[1]), Len(items[1][1])>>, data |-> items]

\* inp.unsqueeze(0), applied when len(inp.shape) == 2
unsqueeze0(inp) ==
    IF Len(inp.shape) = 2
    THEN [shape |-> <<1>> \o inp.shape, data |-> <<inp.data>>]
    ELSE inp

RECURSIVE Concat(_)
Concat(ss) == IF ss = <<>> THEN <<>> ELSE Head(ss) \o Concat(Tail(ss))

\* inp.reshape((-1, inp.shape[-1])): the feature vectors of a 3-D batch, flattened
reshape2(inp) == Concat(inp.data)

\* tmp = inp.shape[0], read after the unsqueeze and before the reshape
BatchCountVectors(inp) == Len(reshape2(unsqueeze0(inp)))

BatchCount(inp) == unsqueeze0(inp).shape[1]

\* sum over the rows x of x x^T: inp.matmul(inp.t()) without the sqrt(2/n) factor
Gram(rows, columns) ==
    [i \in Range(columns) |-> [j \in Range(columns) |->
        ISum([r \in 1 .. Len(rows) |-> rows[r][i + 1] * rows[r][j + 1]],
             1 .. Len(rows))]]

ZeroH(columns) == [i \in Range(columns) |-> [j \in Range(columns) |-> FI(0)]]

\* line 32 without the rescaling
RescaleSkipped(Hm, n, tmp) == Hm

\* line 32: self.H *= self.nsamples / (self.nsamples + tmp)
Rescale(Hm, n, tmp) ==
    [i \in DOMAIN Hm |-> [j \in DOMAIN Hm[i] |-> FMul(Hm[i][j], Frac(n, n + tmp))]]

\* lines 34-35: self.H += (sqrt(2 / nsamples) inp) (sqrt(2 / nsamples) inp)^T
Accumulate(Hm, n, rows) ==
    LET G == Gram(rows, Cardinality(DOMAIN Hm))
    IN  [i \in DOMAIN Hm |-> [j \in DOMAIN Hm[i] |->
            FAdd(Hm[i][j], FMul(Frac(2, n), FI(G[i][j])))]]

Idle == [pc |-> "idle"]

AddBatch(inp) ==
    /\ q.pc = "idle"
    /\ inp.shape[Len(inp.shape)] = Cardinality(DOMAIN layer_weight[0])
    /\ nsamples + BatchCount(inp) <= MaxSamples
    /\ IF H = None
       THEN \* line 23: the assertion fails before anything is written
            /\ outcome' = [op |-> "add_batch", exc |-> "AssertionError"]
            /\ UNCHANGED <<H, nsamples, seen, leading>>
       ELSE LET inp3 == unsqueeze0(inp)
                tmp == BatchCount(inp)
                rows == reshape2(inp3)
            IN  /\ nsamples' = nsamples + tmp
                /\ H' = Accumulate(Rescale(H, nsamples, tmp), nsamples + tmp, rows)
                /\ seen' = seen \o rows
                /\ leading' = leading + (IF Len(inp.shape) = 2 THEN 1 ELSE inp.shape[1])
                /\ outcome' = [op |-> "add_batch", exc |-> "none"]
    /\ q' = Idle
    /\ result' = None
    /\ UNCHANGED <<layer_weight, dead, taken, ran>>

(***************************************************************************)
(* Tensor helpers.                                                         *)
(***************************************************************************)
Col(M, c) == [r \in DOMAIN M |-> M[r][c]]

SetCol(M, c, v) == [r \in DOMAIN M |-> [M[r] EXCEPT ![c] = v[r]]]

\* the k-th smallest (0-based) of the values of f, as torch.quantile's sort sees them
KthSmallest(f, k) ==
    CHOOSE v \in {f[i] : i \in DOMAIN f} :
        /\ Cardinality({i \in DOMAIN f : FLt(f[i], v)}) <= k
        /\ Cardinality({i \in DOMAIN f : ~FLt(v, f[i])}) > k

\* torch.quantile(f, qq), linear interpolation between the two nearest ranks
quantile(f, qq) ==
    LET n == Cardinality(DOMAIN f)
        pos == FMul(qq, FI(n - 1))
        lo == FFloor(pos)
        hi == Min(lo + 1, n - 1)
        vlo == KthSmallest(f, lo)
        vhi == KthSmallest(f, hi)
    IN  FAdd(vlo, FMul(FSub(pos, FI(lo)), FSub(vhi, vlo)))

\* weight.var(dim=0): the unbiased variance of every column over the output rows
var0(W, out_dim, in_dim) ==
    [c \in Range(in_dim) |->
        LET mean == FDiv(FSum(Col(W, c), Range(out_dim)), FI(out_dim))
        IN  FDiv(FSum([r \in Range(out_dim) |-> FSquare(FSub(W[r][c], mean))],
                      Range(out_dim)),
                 FI(out_dim - 1))]

(***************************************************************************)
(* The scalar quantizer (quant_groups.py, outside src/): the usual min-max *)
(* uniform quantizer with one scale and zero point per output row          *)
(* (perchannel = True, sym = False).                                       *)
(***************************************************************************)
maxq(bits) == 2 ^ bits - 1

\* Quantizer.find_params(x, weight=True) on the columns cols of x, perchannel
find_params(x, cols, bits) ==
    LET lo(r) == LET m == KthSmallest([c \in cols |-> x[r][c]], 0)
                 IN  FMin(m, FI(0))
        hi(r) == LET m == KthSmallest([c \in cols |-> x[r][c]], Cardinality(cols) - 1)
                 IN  FMax(m, FI(0))
        xmin(r) == IF lo(r) = FI(0) /\ hi(r) = FI(0) THEN FI(-1) ELSE lo(r)
        xmax(r) == IF lo(r) = FI(0) /\ hi(r) = FI(0) THEN FI(1) ELSE hi(r)
        scale == [r \in DOMAIN x |-> FDiv(FSub(xmax(r), xmin(r)), FI(maxq(bits)))]
    IN  [scale |-> scale,
         zero |-> [r \in DOMAIN x |-> FRound(FDiv(FSub(FI(0), xmin(r)), scale[r]))],
         maxq |-> maxq(bits)]

clamp(v, lo, hi) == IF v < lo THEN lo ELSE IF v > hi THEN hi ELSE v

\* quantize(x, scale, zero, maxq): round to the grid and dequantize
quantize(x, scale, zero, mq) ==
    FMul(scale, FI(clamp(FRound(FDiv(x, scale)) + zero, 0, mq) - zero))

(***************************************************************************)
(* quantize, lines 87-134: everything before the block loop.               *)
(***************************************************************************)
Identity == [name |-> "identity"]

Order(p) == [name |-> "tensor", order |-> p]

\* get_permutation_order (weight_permutation.py, outside src/): the identity
\* order, or the index sequence the caller supplied
get_permutation_order(permutation_order, in_dim) ==
    IF permutation_order.name = "identity"
    THEN [i \in Range(in_dim) |-> i]
    ELSE permutation_order.order

\* torch.argsort(perm): the inverse permutation
argsort(perm) == [c \in DOMAIN perm |-> CHOOSE i \in DOMAIN perm : perm[i] = c]

\* lines 90-94 with the invalidation forgotten
TakeHKept(Hm, keep_H) == Hm

\* lines 90-94: what self.H is after the call took the matrix
TakeH(Hm, keep_H) == IF keep_H THEN Hm ELSE None

\* lines 104-105: the upper Cholesky factor of the inverse of the damped,
\* permuted H.  torch computes it; the model takes some upper-triangular U
\* with a positive diagonal for it and keeps what lines 102-103 force: a dead
\* feature is decoupled, its row and column of the factor are those of the
\* identity.
H_inv_cho(U, isdead) ==
    [i \in DOMAIN U |-> [j \in DOMAIN U |->
        IF isdead[i] \/ isdead[j]
        THEN (IF i = j THEN FI(1) ELSE FI(0))
        ELSE FI(U[i][j])]]

Inf == [kind |-> "inf", val |-> FI(0)]

NaN == [kind |-> "nan", val |-> FI(0)]

Num(v) == [kind |-> "num", val |-> v]

\* outlier_relative_threshold * outlier_scale in IEEE arithmetic: inf * 0 is nan
ThresholdTimes(rel, scale) ==
    IF rel.kind = "inf"
    THEN (IF scale = FI(0) THEN NaN ELSE Inf)
    ELSE Num(FMul(rel.val, scale))

\* a > thr for a threshold that may be inf or nan
Exceeds(a, thr) == thr.kind = "num" /\ FLt(thr.val, a)

\* lines 96-134: the frame of the call as the block loop finds it
QuantizeFrame(W, Hm, cfg, U) ==
    LET out_dim == Cardinality(DOMAIN W)
        in_dim == Cardinality(DOMAIN W[0])
        perm == get_permutation_order(cfg.permutation_order, in_dim)
        \* line 96: H = H[perm][:, perm]; line 97: self.dead
        isdead == [i \in Range(in_dim) |-> Hm[perm[i]][perm[i]] = FI(0)]
        \* lines 87-89 and 103
        weight == [r \in Range(out_dim) |-> [i \in Range(in_dim) |->
                      IF isdead[i] THEN FI(0) ELSE FI(W[r][perm[i]])]]
        P == H_inv_cho(U, isdead)
        groupsize == IF cfg.groupsize = None THEN in_dim ELSE cfg.groupsize[1]
        variance == var0(weight, out_dim, in_dim)
        \* lines 119-122; diag(H_inv) is the diagonal of P^T P
        H_inv_diag == [c \in Range(in_dim) |->
                          FSum([i \in Range(in_dim) |-> FSquare(P[i][c])], Range(in_dim))]
        outlier_criterion == [c \in Range(in_dim) |-> FDiv(variance[c], H_inv_diag[c])]
        column_threshold ==
            FMul(quantile(outlier_criterion, cfg.outlier_percentile_base),
                 cfg.outlier_percentile_multiple)
        outlier_column_indices ==
            IF cfg.outlier_cols_enable
            THEN {c \in Range(in_dim) : FLt(column_threshold, outlier_criterion[c])}
            ELSE {}
        \* line 129
        outlier_scale ==
            FDiv(FSum([c \in Range(in_dim) |-> FDiv(variance[c], FSquare(P[c][c]))],
                      Range(in_dim)),
                 FI(in_dim))
    IN  [pc |-> "block",
         cfg |-> cfg,
         H |-> Hm,
         U |-> U,
         out_dim |-> out_dim,
         in_dim |-> in_dim,
         perm |-> perm,
         dead |-> isdead,
         weight |-> weight,
         H_inv_cho |-> P,
         groupsize |-> groupsize,
         outlier_column_indices |-> outlier_column_indices,
         outlier_columns_mask |-> [c \in Range(in_dim) |-> c \in outlier_column_indices],
         unstructured_outlier_threshold |->
             ThresholdTimes(cfg.outlier_relative_threshold, outlier_scale),
         in_group_index |-> -1,
         quantizer |-> None,
         quantization_errors |->
             [r \in Range(out_dim) |-> [c \in Range(in_dim) |-> FI(0)]],
         unstructured_outlier_mask |->
             [r \in Range(out_dim) |-> [c \in Range(in_dim) |-> FALSE]],
         block_start |-> 0,
         block_end |-> 0,
         column_index |-> 0,
         \* history of the call
         permuted |-> weight,   \* the weight as the loop found it
         before |-> weight,     \* every column as it was when its turn came
         visited |-> <<>>,      \* the columns the loop body ran on, in order
         applied |-> [c \in Range(in_dim) |-> [j \in Range(in_dim) |-> 0]],
                                \* how often column j's correction reached column c
         fits |-> <<>>]         \* per quantizer fit: the corrections its columns held

(***************************************************************************)
(* quantize, lines 136-219: the block loop and the column loop.            *)
(***************************************************************************)
\* line 139: block_end = min(block_start + blocksize, in_dim)
block_end_of(block_start, blocksize, in_dim) == Min(block_start + blocksize, in_dim)

\* lines 136-140: the next block_start of range(0, in_dim - keep_last_columns,
\* blocksize), or the end of the loop
BlockHead(f) ==
    IF f.block_start < f.in_dim - f.cfg.keep_last_columns
    THEN [f EXCEPT !.pc = "column",
                   !.block_end = block_end_of(f.block_start, f.cfg.blocksize, f.in_dim),
                   !.column_index = f.block_start]
    ELSE [f EXCEPT !.pc = "finish"]

\* the columns of the addr_ of lines 209-213, had it run to the last column
Rank1TargetsToEnd(column_index, block_end, in_dim) ==
    {c \in Range(in_dim) : column_index + 1 <= c}

\* lines 209-213: weight[:, column_index + 1: block_end]
Rank1Targets(column_index, block_end, in_dim) ==
    {c \in Range(in_dim) : column_index + 1 <= c /\ c < block_end}

\* lines 215-219: weight[:, block_end:]
AddmmTargets(block_end, in_dim) == {c \in Range(in_dim) : block_end <= c}

\* line 144: the columns column_index : column_index + groupsize
GroupColumns(column_index, groupsize, in_dim) ==
    {j \in Range(in_dim) : column_index <= j /\ j < column_index + groupsize}

\* the estimator's verdicts the model tries: nothing, everything, a checkerboard
LikelyPatterns(out_dim, in_dim) ==
    { [r \in Range(out_dim) |-> [j \in Range(in_dim) |-> 0]],
      [r \in Range(out_dim) |-> [j \in Range(in_dim) |-> 1]],
      [r \in Range(out_dim) |-> [j \in Range(in_dim) |-> (r + j) % 2]] }

NoneLikely(out_dim, in_dim) == [r \in Range(out_dim) |-> [j \in Range(in_dim) |-> 0]]

\* lines 154-160: likely_unstructured_outlier_mask.  get_leave_one_out_error
\* (lines 263-299) scores every weight through Quantizer instances of its own;
\* the model lets the thresholded score be any of LikelyPatterns (and lets the
\* estimator return on every group, also one of a single column).  Against a
\* nan threshold no score compares greater.
LikelyMasks(f) ==
    IF /\ f.pc = "column"
       /\ f.column_index % f.groupsize = 0
       /\ ~f.cfg.simplified_outliers
       /\ f.unstructured_outlier_threshold.kind = "num"
    THEN LikelyPatterns(f.out_dim, f.in_dim)
    ELSE {NoneLikely(f.out_dim, f.in_dim)}

\* lines 141-174: the quantizer fitted on the group that starts at column_index
FitGroup(f, likely) ==
    LET gcols == GroupColumns(f.column_index, f.groupsize, f.in_dim)
        group_mask == [j \in gcols |-> IF f.outlier_columns_mask[j] THEN 0 ELSE 1]
        masked == [r \in Range(f.out_dim) |-> [j \in gcols |->
                      FMul(f.weight[r][j], FI(group_mask[j]))]]
        non_outlier_mask == [r \in Range(f.out_dim) |-> [j \in gcols |->
                                (1 - likely[r][j]) * group_mask[j]]]
        count(r) == ISum(non_outlier_mask[r], gcols)
        mean_over_non_outliers ==
            [r \in Range(f.out_dim) |->
                FDiv(FSum([j \in gcols |->
                              FMul(f.weight[r][j], FI(non_outlier_mask[r][j]))], gcols),
                     FI(IF count(r) < 1 THEN 1 ELSE count(r)))]
        group_weight_without_outliers ==
            [r \in Range(f.out_dim) |-> [j \in gcols |->
                FAdd(FMul(f.weight[r][j], FI(non_outlier_mask[r][j])),
                     FMul(mean_over_non_outliers[r], FI(1 - non_outlier_mask[r][j])))]]
    IN  IF f.cfg.simplified_outliers \/ f.unstructured_outlier_threshold.kind = "inf"
        THEN find_params(masked, gcols, f.cfg.bits)
        ELSE find_params(group_weight_without_outliers, gcols, f.cfg.bits)

\* lines 176-183 with the outlier test dropped: every column is rounded
ColumnQuantizedAlways(w, quantizer, is_outlier_column) ==
    [r \in DOMAIN w |-> quantize(w[r], quantizer.scale[r], quantizer.zero[r], quantizer.maxq)]

\* lines 176-183: weight_i_quantized
ColumnQuantized(w, quantizer, is_outlier_column) ==
    IF ~is_outlier_column
    THEN [r \in DOMAIN w |->
             quantize(w[r], quantizer.scale[r], quantizer.zero[r], quantizer.maxq)]
    ELSE w

\* lines 199-201 without the outliers put back
RestoreOutliersSkipped(wo, w, is_outlier) == wo

\* lines 199-201: weight_i_quantized_wo_outliers * (1 - is_outlier) + weight * is_outlier
RestoreOutliers(wo, w, is_outlier) ==
    [r \in DOMAIN w |->
        FAdd(FMul(wo[r], FI(1 - is_outlier[r])), FMul(w[r], FI(is_outlier[r])))]

\* lines 185-187 and 204-206: delta_weight_i / H_inv_cho[column_index, column_index]
ErrorOf(w, wq, d) == [r \in DOMAIN w |-> FDiv(FSub(w[r], wq[r]), d)]

\* lines 140-213: one pass of the column loop body
ColumnStep(f, likely) ==
    LET c == f.column_index
        fit == c % f.groupsize = 0
        quantizer == IF fit THEN FitGroup(f, likely) ELSE f.quantizer
        w == Col(f.weight, c)
        d == f.H_inv_cho[c][c]
        is_outlier_column == f.outlier_columns_mask[c]
        first == ColumnQuantized(w, quantizer, is_outlier_column)
        first_errors == ErrorOf(w, first, d)
        \* line 189
        unstructured ==
            f.unstructured_outlier_threshold.kind # "inf" /\ ~is_outlier_column
        marks == [r \in Range(f.out_dim) |->
                     unstructured /\ Exceeds(FSquare(first_errors[r]),
                                             f.unstructured_outlier_threshold)]
        is_outlier == [r \in Range(f.out_dim) |-> IF marks[r] THEN 1 ELSE 0]
        wo == [r \in Range(f.out_dim) |->
                  quantize(FMul(w[r], FI(1 - is_outlier[r])),
                           quantizer.scale[r], quantizer.zero[r], quantizer.maxq)]
        weight_i_quantized == IF unstructured THEN RestoreOutliers(wo, w, is_outlier)
                              ELSE first
        errors == IF unstructured THEN ErrorOf(w, weight_i_quantized, d) ELSE first_errors
        targets == Rank1Targets(c, f.block_end, f.in_dim)
        gcols == GroupColumns(c, f.groupsize, f.in_dim)
    IN  [f EXCEPT
            !.pc = IF c + 1 < f.block_end THEN "column" ELSE "block_end",
            !.column_index = c + 1,
            !.in_group_index = IF fit THEN @ + 1 ELSE @,
            !.quantizer = quantizer,
            !.quantization_errors = SetCol(@, c, errors),
            !.unstructured_outlier_mask =
                [r \in Range(f.out_dim) |-> [j \in Range(f.in_dim) |->
                    IF j = c /\ unstructured THEN marks[r]
                    ELSE f.unstructured_outlier_mask[r][j]]],
            \* line 208, then lines 209-213
            !.weight = [r \in Range(f.out_dim) |-> [j \in Range(f.in_dim) |->
                           IF j = c THEN weight_i_quantized[r]
                           ELSE IF j \in targets
                           THEN FSub(f.weight[r][j], FMul(errors[r], f.H_inv_cho[c][j]))
                           ELSE f.weight[r][j]]],
            !.before = SetCol(@, c, w),
            !.visited = Append(@, c),
            !.applied = [j \in Range(f.in_dim) |-> [i \in Range(f.in_dim) |->
                            IF j \in targets /\ i = c THEN f.applied[j][i] + 1
                            ELSE f.applied[j][i]]],
            !.fits = IF fit
                     THEN Append(@, [at |-> c,
                                     held |-> [j \in gcols |->
                                         {i \in Range(f.in_dim) : f.applied[j][i] > 0}]])
                     ELSE @]

\* lines 215-219: the block's errors reach every column past the block
BlockEnd(f) ==
    LET block == {j \in Range(f.in_dim) : f.block_start <= j /\ j < f.block_end}
        targets == AddmmTargets(f.block_end, f.in_dim)
    IN  [f EXCEPT
            !.pc = "block",
            !.block_start = @ + f.cfg.blocksize,
            !.weight = [r \in Range(f.out_dim) |-> [t \in Range(f.in_dim) |->
                           IF t \in targets
                           THEN FSub(f.weight[r][t],
                                     FSum([j \in block |->
                                              FMul(f.quantization_errors[r][j],
                                                   f.H_inv_cho[j][t])], block))
                           ELSE f.weight[r][t]]],
            !.applied = [t \in Range(f.in_dim) |->
                            IF t \in targets
                            THEN [j \in Range(f.in_dim) |->
                                     IF j \in block THEN f.applied[t][j] + 1
                                     ELSE f.applied[t][j]]
                            ELSE f.applied[t]]]

(***************************************************************************)
(* quantize, lines 221-246: row outliers, un-permutation, the result.      *)
(***************************************************************************)
\* line 224: both row outliers and a threshold other than inf
Unsupported(f) ==
    f.cfg.outlier_rows_enable /\ f.unstructured_outlier_threshold.kind # "inf"

\* lines 227-229
RowOutliers(f) ==
    LET outlier_row_criterion ==
            [r \in Range(f.out_dim) |->
                FDiv(FSum([c \in Range(f.in_dim) |-> FSquare(f.quantization_errors[r][c])],
                          Range(f.in_dim)),
                     FI(f.in_dim))]
        row_threshold ==
            FMul(quantile(outlier_row_criterion, f.cfg.outlier_percentile_base),
                 f.cfg.outlier_percentile_multiple)
    IN  IF f.cfg.outlier_rows_enable
        THEN {r \in Range(f.out_dim) : FLt(row_threshold, outlier_row_criterion[r])}
        ELSE {}

\* lines 222-246 when nothing is raised
QuantizeFinish(W, f) ==
    LET outlier_row_indices == RowOutliers(f)
        \* line 230
        mask == [r \in Range(f.out_dim) |-> [c \in Range(f.in_dim) |->
                    IF r \in outlier_row_indices THEN FALSE
                    ELSE f.unstructured_outlier_mask[r][c]]]
        \* line 232: the rows of the layer's weight, in the layer's own column order
        restored == [r \in Range(f.out_dim) |-> [c \in Range(f.in_dim) |->
                        IF r \in outlier_row_indices THEN FI(W[r][c])
                        ELSE f.weight[r][c]]]
        \* lines 234-236
        invperm == argsort(f.perm)
        weight == IF f.cfg.permutation_order.name # "identity"
                  THEN [r \in Range(f.out_dim) |-> [c \in Range(f.in_dim) |->
                           restored[r][invperm[c]]]]
                  ELSE restored
    IN  [weight |-> weight,
         perm |-> f.perm,
         quantization_errors |-> f.quantization_errors,
         outlier_column_indices |-> f.outlier_column_indices,
         outlier_row_indices |-> outlier_row_indices,
         unstructured_outlier_threshold |-> f.unstructured_outlier_threshold,
         unstructured_outlier_mask |-> mask]

(***************************************************************************)
(* The calls as actions.  quantize is one synchronous call; its frame q    *)
(* steps through the loops, and add_batch runs only between calls.  Until  *)
(* the next call q keeps the frame as the call left it, pc back at "idle", *)
(* and result keeps what the call returned.                                *)
(***************************************************************************)
QuantizeBegin(cfg, U) ==
    /\ q.pc = "idle"
    /\ Cardinality(DOMAIN U) = Cardinality(DOMAIN layer_weight[0])
    /\ cfg.keep_last_columns <= Cardinality(DOMAIN layer_weight[0])
    /\ IF H = None
       THEN \* H.clone() (line 92) or H[perm] (line 96) on None
            /\ outcome' = [op |-> "quantize",
                           exc |-> IF cfg.keep_H THEN "AttributeError" ELSE "TypeError"]
            /\ q' = Idle
            /\ result' = None
            /\ UNCHANGED <<H, taken, ran>>
            /\ UNCHANGED dead
       ELSE \* lines 87-94: the call holds H (a clone, or the matrix itself)
            /\ q' = [pc |-> "prepare", cfg |-> cfg, H |-> H, U |-> U]
            /\ H' = TakeH(H, cfg.keep_H)
            /\ taken' = IF cfg.keep_H THEN taken ELSE <<nsamples>>
            /\ ran' = TRUE
            /\ result' = None
            /\ outcome' = [op |-> "quantize", exc |-> "running"]
            /\ UNCHANGED dead
    /\ UNCHANGED <<layer_weight, nsamples, seen, leading>>

\* lines 96-134
Prepare ==
    /\ q.pc = "prepare"
    /\ q' = QuantizeFrame(layer_weight, q.H, q.cfg, q.U)
    /\ dead' = q'.dead
    /\ UNCHANGED <<layer_weight, H, nsamples, outcome, result, seen, leading, taken, ran>>

BlockLoop ==
    /\ q.pc = "block"
    /\ q' = BlockHead(q)
    /\ UNCHANGED <<layer_weight, H, nsamples, dead, outcome, result, seen, leading, taken, ran>>

ColumnLoop ==
    /\ q.pc = "column"
    /\ \E likely \in LikelyMasks(q) : q' = ColumnStep(q, likely)
    /\ UNCHANGED <<layer_weight, H, nsamples, dead, outcome, result, seen, leading, taken, ran>>

BlockUpdate ==
    /\ q.pc = "block_end"
    /\ q' = BlockEnd(q)
    /\ UNCHANGED <<layer_weight, H, nsamples, dead, outcome, result, seen, leading, taken, ran>>

QuantizeEnd ==
    /\ q.pc = "finish"
    /\ q' = [q EXCEPT !.pc = "idle"]
    /\ IF Unsupported(q)
       THEN \* lines 225-226
            /\ outcome' = [op |-> "quantize", exc |-> "NotImplementedError"]
            /\ result' = None
       ELSE /\ outcome' = [op |-> "quantize", exc |-> "none"]
            /\ result' = QuantizeFinish(layer_weight, q)
    /\ UNCHANGED <<layer_weight, H, nsamples, dead, seen, leading, taken, ran>>

(***************************************************************************)
(* Layers, calibration batches and call configurations.                    *)
(***************************************************************************)
\* a layer's weight: small integers, different in every row and column
LayerWeight(variant, out_dim, in_dim) ==
    [r \in Range(out_dim) |-> [c \in Range(in_dim) |->
        (((variant + 1) * (r + 1) * (2 * c + 1) + r * r) % 7) - 2]]

\* an upper-triangular factor with diagonal d and off-diagonal entries of sign s
Factor(d, s, n) ==
    [i \in Range(n) |-> [j \in Range(n) |->
        IF j < i THEN 0 ELSE IF j = i THEN d ELSE s * (1 + ((i + j) % 2))]]

\* lines 40-55: the defaults of quantize
Defaults ==
    [bits |-> 2, blocksize |-> 128, groupsize |-> None, keep_last_columns |-> 0,
     outlier_relative_threshold |-> Inf, permutation_order |-> Identity,
     keep_H |-> TRUE, outlier_cols_enable |-> FALSE, outlier_rows_enable |-> FALSE,
     outlier_percentile_base |-> Frac(99, 100), outlier_percentile_multiple |-> FI(2),
     simplified_outliers |-> FALSE]

Ones(n) == [i \in 1 .. n |-> 1]

Ramp(n) == [i \in 1 .. n |-> i - 1]

Init(Layers) ==
    /\ layer_weight \in Layers
    /\ H = ZeroH(Cardinality(DOMAIN layer_weight[0]))
    /\ nsamples = 0
    /\ dead = None
    /\ q = Idle
    /\ outcome = [op |-> "init", exc |-> "none"]
    /\ result = None
    /\ seen = <<>>
    /\ leading = 0
    /\ taken = None
    /\ ran = FALSE

Next(Batches, Cfgs, Factors) ==
    \/ \E inp \in Batches : AddBatch(inp)
    \/ \E cfg \in Cfgs : \E U \in Factors : QuantizeBegin(cfg, U)
    \/ Prepare
    \/ BlockLoop
    \/ ColumnLoop
    \/ BlockUpdate
    \/ QuantizeEnd

(***************************************************************************)
(* Spec: the accumulator and the life of its matrix, on a 2 x 2 layer.     *)
(***************************************************************************)
AccLayers == {LayerWeight(0, 2, 2)}

AccBatches ==
    { Batch2D(<<Ones(2)>>), Batch2D(<<Ramp(2), Ones(2)>>),
      Batch3D(<<<<Ones(2)>>, <<Ramp(2)>>>>), Batch3D(<<<<Ramp(2), Ones(2)>>>>) }

AccCfgs ==
    { [Defaults EXCEPT !.blocksize = b, !.keep_H = k, !.outlier_rows_enable = rows,
                       !.outlier_relative_threshold = t,
                       !.outlier_percentile_base = Frac(1, 2),
                       !.outlier_percentile_multiple = FI(1)] :
        b \in {1, 2}, k \in BOOLEAN, rows \in BOOLEAN, t \in {Inf, Num(Frac(1, 5))} }

AccInit == Init(AccLayers)

AccFactors == {Factor(1, 1, 2), Factor(2, -1, 2)}

AccNext == Next(AccBatches, AccCfgs, AccFactors)

Spec == AccInit /\ [][AccNext]_vars

(***************************************************************************)
(* SpecLoop: the block and column loops for every layer width, blocksize,  *)
(* groupsize and keep_last_columns up to MaxInDim.                         *)
(***************************************************************************)
LoopLayers == {LayerWeight(0, 2, n) : n \in 1 .. MaxInDim}

LoopBatches == {Batch2D(<<Ones(n)>>) : n \in 1 .. MaxInDim}

LoopCfgs ==
    { [Defaults EXCEPT !.blocksize = b, !.groupsize = g, !.keep_last_columns = k] :
        b \in 1 .. MaxInDim,
        g \in {None} \cup {<<n>> : n \in 1 .. MaxInDim},
        k \in 0 .. MaxInDim }

LoopInit == Init(LoopLayers)

LoopFactors == {Factor(2, -1, n) : n \in 1 .. MaxInDim}

LoopNext == Next(LoopBatches, LoopCfgs, LoopFactors)

SpecLoop == LoopInit /\ [][LoopNext]_vars

(***************************************************************************)
(* SpecOutlier: the three outlier policies and the permutation, on layers  *)
(* of three input features.                                                *)
(***************************************************************************)
OutlierLayers == {LayerWeight(0, 2, 3), LayerWeight(2, 3, 3)}

OutlierBatches == {Batch2D(<<Ones(3)>>)}

Rotation(n) == [i \in Range(n) |-> (i + 1) % n]

OutlierCfgs ==
    { [Defaults EXCEPT !.blocksize = b, !.groupsize = g, !.keep_last_columns = k,
                       !.outlier_relative_threshold = t,
                       !.permutation_order = p,
                       !.outlier_cols_enable = cols, !.outlier_rows_enable = rows,
                       !.outlier_percentile_base = Frac(1, 2),
                       !.outlier_percentile_multiple = FI(1),
                       !.simplified_outliers = simple] :
        b \in {2, 3}, k \in {0, 1}, g \in {None, <<2>>},
        t \in {Inf, Num(Frac(1, 5))},
        p \in {Identity, Order(Rotation(3))},
        cols \in BOOLEAN, rows \in BOOLEAN, simple \in BOOLEAN }

OutlierInit == Init(OutlierLayers)

OutlierFactors == {Factor(2, -1, 3)}

OutlierNext == Next(OutlierBatches, OutlierCfgs, OutlierFactors)

SpecOutlier == OutlierInit /\ [][OutlierNext]_vars

(***************************************************************************)
(* Properties of the accumulator, checked under Spec.                      *)
(***************************************************************************)
\* (2 / n) times the sum of x x^T over the feature vectors xs
ScaledGram(xs, n, columns) ==
    LET G == Gram(xs, columns)
    IN  [i \in Range(columns) |-> [j \in Range(columns) |->
            FMul(Frac(2, n), FI(G[i][j]))]]

Columns == Cardinality(DOMAIN layer_weight[0])

\* C2 as stated: once a quantize call has run, self.H is invalidated and any
\* add_batch that follows fails, whatever the call's configuration.
C2_OneShotAnyConfig ==
    (ran /\ q.pc = "idle") =>
        /\ H = None
        /\ (outcome.op = "add_batch" => outcome.exc = "AssertionError")

\* C2, amended: once a quantize call with keep_H = false has taken the matrix,
\* self.H stays None, nsamples stays what it was, and every add_batch that
\* follows fails on the assertion of line 23.
C2_OneShotWhenNotKept ==
    (taken # None) =>
        /\ H = None
        /\ nsamples = taken[1]
        /\ (outcome.op = "add_batch" => outcome.exc = "AssertionError")

C2_Witness ==
    /\ taken # None
    /\ nsamples > 0
    /\ outcome = [op |-> "add_batch", exc |-> "AssertionError"]

\* C3 as stated: a call with row outliers and a finite unstructured threshold
\* fails before any mutation, so after the failure self.H is what it was when
\* the call began (q.H), also with keep_H = false, and no column was processed.
C3_RejectedAtEntry ==
    (outcome = [op |-> "quantize", exc |-> "NotImplementedError"]) =>
        /\ H = q.H
        /\ q.visited = <<>>

\* C4 as stated: nsamples is the number of feature vectors handed to add_batch.
C4_CountsFeatureVectors == nsamples = Len(seen)

\* C4, amended: nsamples is the sum of the batches' leading-axis lengths, a 2-D
\* batch counting as one sample whatever its number of rows.
C4_CountsLeadingAxis == nsamples = leading

C4_Witness ==
    /\ nsamples = 3
    /\ Len(seen) = 4
    /\ outcome = [op |-> "add_batch", exc |-> "none"]

\* C5 as stated: however the samples were split into batches, H is the H of one
\* single add_batch of all of them, that is 2 / (number of samples) times the
\* sum of x x^T.
C5_SplitIndependent ==
    (H # None /\ seen # <<>>) =>
        /\ H = Accumulate(Rescale(ZeroH(Columns), 0, BatchCount(Batch2D(seen))),
                          BatchCount(Batch2D(seen)), seen)
        /\ H = ScaledGram(seen, Len(seen), Columns)

\* C5, amended: after any sequence of batches H is 2 / nsamples times the sum of
\* x x^T over all feature vectors seen, nsamples being the sum of the batches'
\* leading-axis lengths; the order and the grouping of the batches matter only
\* through that sum.
C5_ScaledByCount ==
    (H # None /\ nsamples > 0) => H = ScaledGram(seen, nsamples, Columns)

C5_Witness ==
    /\ H # None
    /\ nsamples = 3
    /\ Len(seen) = 4
    /\ H # ScaledGram(seen, Len(seen), Columns)

(***************************************************************************)
(* Properties of the block and column loops, checked under SpecLoop.       *)
(***************************************************************************)
\* the frame has reached the loops (it holds their fields)
InLoops(f) == f.pc \in {"block", "column", "block_end", "finish"}

AfterLoops(f) == f.pc = "finish" \/ (f.pc = "idle" /\ f # Idle)

Visited(f) == {f.visited[i] : i \in 1 .. Len(f.visited)}

\* C1 as stated: with 0 < keep_last_columns = k <= in_dim the column loop never
\* reaches a column of index >= in_dim - k, so none of the last k columns is
\* rounded.
C1_TailNeverVisited ==
    (InLoops(q) /\ q.cfg.keep_last_columns > 0) =>
        \A c \in Visited(q) : c < q.in_dim - q.cfg.keep_last_columns

\* the whole column loop of a call, run to its end (no leave-one-out verdicts)
RECURSIVE RunLoops(_)
RunLoops(f) ==
    IF f.pc = "block" THEN RunLoops(BlockHead(f))
    ELSE IF f.pc = "column" THEN RunLoops(ColumnStep(f, NoneLikely(f.out_dim, f.in_dim)))
    ELSE IF f.pc = "block_end" THEN RunLoops(BlockEnd(f))
    ELSE f

\* the same call on the same weight, H and factor, with another blocksize
WithBlocksize(f, b) ==
    RunLoops(QuantizeFrame(layer_weight, f.H, [f.cfg EXCEPT !.blocksize = b], f.U))

\* C6 as stated: the call's result does not depend on blocksize: with any
\* other blocksize the same columns are rounded, every quantizer fit sees group
\* columns holding the corrections of the same earlier columns, and the
\* returned weight and errors are the same.
C6_BlocksizeIrrelevant ==
    (q.pc = "idle" /\ outcome = [op |-> "quantize", exc |-> "none"]) =>
        \A b \in 1 .. q.in_dim :
            LET other == WithBlocksize(q, b)
            IN  /\ Visited(other) = Visited(q)
                /\ other.fits = q.fits
                /\ QuantizeFinish(layer_weight, other) = result

\* C10: the loop visits columns in strictly increasing order; whenever a column
\* c is about to be rounded, each earlier visited column's correction has
\* reached c exactly once, so c holds its permuted original value minus the
\* sum of error[:, j] * P[j, c] over the visited j < c; and no column ever
\* receives a correction from itself or from a later column.
C10_CorrectionsExactlyOnce ==
    InLoops(q) =>
        /\ \A i \in 1 .. Len(q.visited) - 1 : q.visited[i] < q.visited[i + 1]
        /\ \A c \in Range(q.in_dim) : \A j \in Range(q.in_dim) :
               q.applied[c][j] > 0 => (j < c /\ j \in Visited(q))
        /\ (q.pc = "column") =>
               /\ \A j \in Visited(q) :
                      j < q.column_index /\ q.applied[q.column_index][j] = 1
               /\ \A r \in Range(q.out_dim) :
                      q.weight[r][q.column_index] =
                          FSub(q.permuted[r][q.column_index],
                               FSum([j \in Visited(q) |->
                                        FMul(q.quantization_errors[r][j],
                                             q.H_inv_cho[j][q.column_index])],
                                    Visited(q)))

\* a column about to be rounded that has taken one correction by the rank-1
\* update of its own block and one by the update at the end of an earlier
\* block, both of them non-zero
C10_Witness ==
    /\ q.pc = "column"
    /\ \E j \in Visited(q) : \E r \in Range(q.out_dim) :
           /\ j < q.block_start
           /\ FMul(q.quantization_errors[r][j], q.H_inv_cho[j][q.column_index]) # FI(0)
    /\ \E j \in Visited(q) : \E r \in Range(q.out_dim) :
           /\ j >= q.block_start
           /\ FMul(q.quantization_errors[r][j], q.H_inv_cho[j][q.column_index]) # FI(0)

(***************************************************************************)
(* Properties of the outlier policies, checked under SpecOutlier.          *)
(***************************************************************************)
Returned == q.pc = "idle" /\ outcome = [op |-> "quantize", exc |-> "none"]

\* C7 as stated: a structured outlier column of the returned weight equals the
\* original weight's column exactly, and its error column is zero.
C7_OutlierColumnUntouched ==
    Returned =>
        \A p \in result.outlier_column_indices : \A r \in Range(q.out_dim) :
            /\ result.weight[r][q.perm[p]] = FI(layer_weight[r][q.perm[p]])
            /\ result.quantization_errors[r][p] = FI(0)

\* C7, amended: a structured outlier column is never rounded and its error
\* column is zero; in every row that is not restored as a row outlier, the
\* returned column is the original one minus the corrections
\* error[:, j] * P[j, p] of the columns j visited before it.
C7_OutlierColumnOnlyCorrected ==
    Returned =>
        \A p \in result.outlier_column_indices : \A r \in Range(q.out_dim) :
            /\ result.quantization_errors[r][p] = FI(0)
            /\ r \notin result.outlier_row_indices =>
                   result.weight[r][q.perm[p]] =
                       FSub(FI(layer_weight[r][q.perm[p]]),
                            FSum([j \in {i \in Visited(q) : i < p} |->
                                     FMul(result.quantization_errors[r][j],
                                          q.H_inv_cho[j][p])],
                                 {i \in Visited(q) : i < p}))

C7_Witness ==
    /\ Returned
    /\ ~q.cfg.outlier_rows_enable
    /\ \E p \in result.outlier_column_indices :
           /\ p > 0
           /\ p \in Visited(q)
           /\ result.weight[0][q.perm[p]] # FI(layer_weight[0][q.perm[p]])

\* C8 as stated: every row selected as a row outlier is returned equal to the
\* layer's original row, index by index, whatever the permutation, and none
\* of its elements is marked as an unstructured outlier.
C8_RowRestored ==
    Returned =>
        \A r \in result.outlier_row_indices : \A c \in Range(q.in_dim) :
            /\ result.weight[r][c] = FI(layer_weight[r][c])
            /\ ~result.unstructured_outlier_mask[r][c]

\* C9: with a finite unstructured threshold, after the column loop every
\* element of a visited column that is no outlier column is either marked, and
\* then it kept the value it had before rounding and its error is zero, or
\* unmarked, and then its squared error is at most the threshold; no element
\* of an outlier column or of an unvisited column is marked.
C9_MarkedOrWithinThreshold ==
    (AfterLoops(q) /\ q.cfg.outlier_relative_threshold.kind = "num") =>
        \A c \in Range(q.in_dim) : \A r \in Range(q.out_dim) :
            IF c \in Visited(q) /\ ~q.outlier_columns_mask[c]
            THEN IF q.unstructured_outlier_mask[r][c]
                 THEN /\ q.weight[r][c] = q.before[r][c]
                      /\ q.quantization_errors[r][c] = FI(0)
                 ELSE ~FLt(q.unstructured_outlier_threshold.val,
                           FSquare(q.quantization_errors[r][c]))
            ELSE ~q.unstructured_outlier_mask[r][c]

\* a finished loop with a marked element whose value is not the grid's zero
\* and an unmarked element with a non-zero error
C9_Witness ==
    /\ q.pc = "finish"
    /\ q.cfg.outlier_relative_threshold.kind = "num"
    /\ \E c \in Visited(q) : \E r \in Range(q.out_dim) :
           /\ q.unstructured_outlier_mask[r][c]
           /\ q.weight[r][c] # FI(0)
    /\ \E c \in Visited(q) : \E r \in Range(q.out_dim) :
           /\ ~q.unstructured_outlier_mask[r][c]
           /\ ~q.outlier_columns_mask[c]
           /\ q.quantization_errors[r][c] # FI(0)

====
